---- MODULE Spec2Model ----
(***************************************************************************)
(* Certification pipeline: the mock-data synthesizer                       *)
(* (scripts/01_generate_mock_data.py) and the data-quality validator       *)
(* (scripts/02_data_quality_checks.py).                                    *)
(*                                                                         *)
(* A datetime is the number of days since START_DATE (2024-01-01); a       *)
(* 'YYYY-MM-DD' string is the triple <<year, month, day>>, whose           *)
(* lexicographic order is the order of the zero-padded strings.  A missing *)
(* string (None, the empty CSV field, NaN) is NULL, a missing date string  *)
(* is NoDate.  A random.random() draw is its value in hundredths (0..99).  *)
(*                                                                         *)
(* The relational loader (scripts/03_load_to_sqlite.py) and the checklist  *)
(* builder (scripts/05_pre_audit_checklist.py) work on db, the SQLite      *)
(* database; log is what the loader has printed.  A percentage rounded to  *)
(* one decimal is held in tenths of a percent (33.3% is 333).              *)
(***************************************************************************)
EXTENDS Integers, Sequences, FiniteSets, TLC

VARIABLES pc, clients, apps, certs, audits, results, verdict, db, log, checklist, savings

vars == <<pc, clients, apps, certs, audits, results, verdict, db, log, checklist, savings>>

NULL == "NULL"
NoDate == <<>>

\* The database file before the loader has created it (main removes an
\* existing file): no foreign-key enforcement, no tables, no views.
NoDatabase ==
    [foreign_keys |-> FALSE, schema |-> FALSE,
     clients |-> <<>>, applications |-> <<>>,
     certification_results |-> <<>>, audit_results |-> <<>>,
     views |-> {}]

\* No checklist built yet.
NoChecklist == [title |-> NULL, df |-> <<>>, printed |-> <<>>]

\* Nothing estimated yet.  A rate is the fraction num / den, in percent.
NoSavings ==
    [total_apps |-> 0, failed_apps |-> 0, total_revisions |-> 0, top3_count |-> 0,
     total_failures |-> 0, prevented |-> 0, days_saved |-> 0,
     current_rate |-> [num |-> 0, den |-> 1], projected_rate |-> [num |-> 0, den |-> 1]]

\* ---------------------------------------------------------------- bounds
\* Number of clients and applications generated (50 and 300 in the source).
NumClients == 1
NumApplications == 2
\* weighted_choice / np.random.choice return one of the first MaxChoice
\* labels of the table they draw from.
MaxChoice == 2

\* ------------------------------------------------------------- constants
START_DATE == 0
END_DATE == 730
DAYS_PER_REVISION == 12
MaxJitter == 10
PendingWindow == 90
DefaultPassRate == 55
PendingRate == 15
MAX_REVISIONS == 10
MAX_TURNAROUND == 365
MIN_TURNAROUND == 7

Min(a, b) == IF a < b THEN a ELSE b

\* ------------------------------------------------------------- calendar
BaseYear == 2024

IsLeap(y) == (y % 4 = 0 /\ y % 100 # 0) \/ y % 400 = 0

DaysInYear(y) == IF IsLeap(y) THEN 366 ELSE 365

DaysInMonth(y, m) ==
    IF m = 2 THEN (IF IsLeap(y) THEN 29 ELSE 28)
    ELSE IF m \in {4, 6, 9, 11} THEN 30 ELSE 31

RECURSIVE SplitYear(_, _)
SplitYear(y, n) ==
    IF n >= DaysInYear(y) THEN SplitYear(y + 1, n - DaysInYear(y)) ELSE <<y, n>>

RECURSIVE SplitMonth(_, _, _)
SplitMonth(y, m, n) ==
    IF n >= DaysInMonth(y, m) THEN SplitMonth(y, m + 1, n - DaysInMonth(y, m))
    ELSE <<y, m, n + 1>>

\* datetime.strftime('%Y-%m-%d')
strftime(d) == LET yn == SplitYear(BaseYear, d) IN SplitMonth(yn[1], 1, yn[2])

RECURSIVE DaysBeforeYear(_)
DaysBeforeYear(y) == IF y <= BaseYear THEN 0 ELSE DaysBeforeYear(y - 1) + DaysInYear(y - 1)

RECURSIVE DaysBeforeMonth(_, _)
DaysBeforeMonth(y, m) == IF m <= 1 THEN 0 ELSE DaysBeforeMonth(y, m - 1) + DaysInMonth(y, m - 1)

\* datetime.strptime(s, '%Y-%m-%d')
strptime(s) == DaysBeforeYear(s[1]) + DaysBeforeMonth(s[1], s[2]) + s[3] - 1

\* order of two 'YYYY-MM-DD' strings
StrLeq(a, b) ==
    \/ a[1] < b[1]
    \/ a[1] = b[1] /\ a[2] < b[2]
    \/ a[1] = b[1] /\ a[2] = b[2] /\ a[3] <= b[3]

\* ------------------------------------------------------------------ ids
RECURSIVE Digits(_)
Digits(n) == IF n < 10 THEN <<n>> ELSE Append(Digits(n \div 10), n % 10)

RECURSIVE ZeroPad(_, _)
ZeroPad(ds, width) == IF Len(ds) >= width THEN ds ELSE ZeroPad(<<0>> \o ds, width)

fmt_client_id(n) == <<"CLI">> \o ZeroPad(Digits(n), 4)
fmt_app_id(n) == <<"APP">> \o ZeroPad(Digits(n), 5)
fmt_audit_id_not_counted(n) == <<"AUD">> \o ZeroPad(Digits(1), 5)

fmt_audit_id(n) == <<"AUD">> \o ZeroPad(Digits(n), 5)

\* ------------------------------------------------------ distributions
\* A distribution table is the sequence of its <<label, weight in percent>>.
MANUFACTURER_SIZE_DIST == << <<"SME", 65>>, <<"Large", 35>> >>

SECTOR_DIST ==
    << <<"Energy", 40>>, <<"Utilities", 30>>, <<"Retail Fuel", 15>>,
       <<"Transportation", 10>>, <<"Multi-sector", 5>> >>

INSTRUMENT_TYPE_DIST ==
    << <<"Gas Meter", 35>>, <<"Electricity Meter", 30>>, <<"Water Meter", 20>>,
       <<"Dispenser", 10>>, <<"Taximeter", 5>> >>

MID_MODULE_DIST == << <<"B", 70>>, <<"D", 30>> >>

RISK_CLASS_DIST == << <<"Low", 30>>, <<"Medium", 50>>, <<"High", 20>> >>

REVISION_DIST == << <<1, 45>>, <<2, 30>>, <<3, 15>>, <<4, 10>> >>

FIRST_TIME_PASS_RATES(module, size) ==
    IF module = "B" /\ size = "SME" THEN 45
    ELSE IF module = "B" /\ size = "Large" THEN 60
    ELSE IF module = "D" /\ size = "SME" THEN 55
    ELSE IF module = "D" /\ size = "Large" THEN 70
    ELSE DefaultPassRate

BASE_TURNAROUND_DAYS_swapped(module) == IF module = "B" THEN 30 ELSE 45

BASE_TURNAROUND_DAYS(module) == IF module = "B" THEN 45 ELSE 30

MODULE_B_FAILURE_REASONS ==
    << <<"Technical file incomplete", 25>>, <<"Documentation inconsistencies", 20>>,
       <<"Test report gaps", 15>>, <<"Metrological requirements unclear", 12>>,
       <<"Software documentation missing", 10>>, <<"Durability evidence insufficient", 8>>,
       <<"Marking/labelling non-compliant", 5>>, <<"EMC test results missing", 5>> >>

MODULE_D_FAILURE_REASONS ==
    << <<"Training records missing", 22>>, <<"Internal audit gaps", 20>>,
       <<"Calibration records outdated", 15>>, <<"Non-conformance handling unclear", 12>>,
       <<"Production process not documented", 10>>, <<"Supplier control insufficient", 8>>,
       <<"Management review incomplete", 8>>, <<"Corrective action records missing", 5>> >>

Labels(dist) == {dist[i][1] : i \in 1..Len(dist)}

\* The labels weighted_choice(dist) can return.
weighted_choice(dist) ==
    {dist[i][1] : i \in {j \in 1..Min(MaxChoice, Len(dist)) : dist[j][2] > 0}}

\* ------------------------------------------------------------- draws
\* random.random(), in hundredths
UDraws == {0, 50, 99}
\* random.randint(0, delta) of random_date: the last day outside the pending
\* window and the first day inside it
DateDraws == {END_DATE - PendingWindow, END_DATE - PendingWindow + 1}
\* random.randint(-10, 10)
JitterDraws == {-MaxJitter, MaxJitter}

\* random_date(start, end), given the randint draw
random_date(start, end, r) == start + r

\* ---------------------------------------------------------- synthesizer
prefixes ==
    <<"Euro", "Global", "Tech", "Smart", "Precision", "Advanced", "Nordic", "Central",
      "Premier", "Allied", "United", "First", "Metro", "Alpha", "Delta", "Sigma", "Nova",
      "Apex">>

suffixes ==
    <<"Meters", "Instruments", "Systems", "Technologies", "Solutions", "Metering",
      "Devices", "Engineering", "Manufacturing", "Industries">>

\* The draws of one client: random.choice(prefixes), random.choice(suffixes),
\* random.random() and the two weighted_choice calls.  The a-th size is drawn
\* together with the a-th sector.
ClientDraws ==
    {[prefix |-> prefixes[1], suffix |-> suffixes[1], u |-> 99,
      size |-> MANUFACTURER_SIZE_DIST[a][1], sector |-> SECTOR_DIST[a][1]] :
       a \in {j \in 1..Min(MaxChoice, Len(MANUFACTURER_SIZE_DIST)) :
                 MANUFACTURER_SIZE_DIST[j][2] > 0 /\ SECTOR_DIST[j][2] > 0}}

\* One row of generate_clients.
ClientRow(i, d) ==
    [client_id |-> fmt_client_id(i),
     company_name |-> <<d.prefix, d.suffix, IF d.u > 50 THEN "Ltd" ELSE "GmbH">>,
     manufacturer_size |-> d.size,
     sector |-> d.sector]

\* df.set_index(key)[col].to_dict()[k]: the last row with that key wins.
Lookup(rows, key, k, col) ==
    LET hits == {i \in 1..Len(rows) : rows[i][key] = k}
        last == CHOOSE i \in hits : \A j \in hits : j <= i
    IN rows[last][col]

Instrument_unknown_label(sector, u, pick, w) ==
    IF sector = "Energy" /\ u < 80 THEN pick
    ELSE IF sector = "Utilities" /\ u < 70 THEN "Water meter"
    ELSE IF sector = "Retail Fuel" /\ u < 70 THEN "Dispenser"
    ELSE IF sector = "Transportation" /\ u < 60 THEN "Taximeter"
    ELSE w

\* The sector-conditioned instrument choice of generate_applications.
Instrument(sector, u, pick, w) ==
    IF sector = "Energy" /\ u < 80 THEN pick
    ELSE IF sector = "Utilities" /\ u < 70 THEN "Water Meter"
    ELSE IF sector = "Retail Fuel" /\ u < 70 THEN "Dispenser"
    ELSE IF sector = "Transportation" /\ u < 60 THEN "Taximeter"
    ELSE w

\* The draws of one application.  The weighted_choice draws are taken
\* together, the a-th label of each table (the a-th module modulo the table's
\* length); the sector branch is taken (u = 0, first label of the list) with
\* the first labels and not taken (u = 99) with the others.
AppDraws ==
    {[client |-> c, date |-> dt,
      module |-> MID_MODULE_DIST[((a - 1) % Len(MID_MODULE_DIST)) + 1][1],
      u |-> IF a = 1 THEN 0 ELSE 99,
      pick |-> "Gas Meter",
      w |-> INSTRUMENT_TYPE_DIST[a][1],
      risk |-> RISK_CLASS_DIST[a][1]] :
       c \in 1..NumClients, dt \in DateDraws,
       a \in {j \in 1..Min(MaxChoice, Len(RISK_CLASS_DIST)) :
                 INSTRUMENT_TYPE_DIST[j][2] > 0 /\ RISK_CLASS_DIST[j][2] > 0}}

\* One row of generate_applications, before the sort.
AppRow(i, d, cl) ==
    LET client_id == cl[d.client].client_id
        sector == Lookup(cl, "client_id", client_id, "sector")
    IN [application_id |-> fmt_app_id(i),
        client_id |-> client_id,
        submission_date |-> strftime(random_date(START_DATE, END_DATE, d.date)),
        instrument_type |-> Instrument(sector, d.u, d.pick, d.w),
        mid_module |-> d.module,
        risk_class |-> d.risk]

\* df.sort_values('submission_date').reset_index(drop=True): the sort is not
\* stable, so rows with equal dates come out in any order.
SortedBySubmission(rows) ==
    LET n == Len(rows)
        perms == {p \in [1..n -> 1..n] :
                    /\ \A i, j \in 1..n : i # j => p[i] # p[j]
                    /\ \A i \in 1..n : \A j \in 1..n :
                         i < j => StrLeq(rows[p[i]].submission_date, rows[p[j]].submission_date)}
    IN {[i \in 1..n |-> rows[p[i]]] : p \in perms}

CertDraws ==
    [u : UDraws,
     rev : weighted_choice(REVISION_DIST),
     jitter : JitterDraws,
     upend : UDraws]

\* revisions = 0 if passed else np.random.choice([1, 2, 3, 4], ...)
Revisions_drawn_always(passed, rev) == rev

Revisions(passed, rev) == IF passed = 1 THEN 0 ELSE rev

\* 'application_id': app['application_id'] of a certification result
CertApplicationId_client(app) == app.client_id

CertApplicationId(app) == app.application_id

CertRow_pending_any_date(app, cl, d) ==
    LET module == app.mid_module
        mfr_size == Lookup(cl, "client_id", app.client_id, "manufacturer_size")
        submission == strptime(app.submission_date)
        pass_rate == FIRST_TIME_PASS_RATES(module, mfr_size)
        passed == IF d.u < pass_rate THEN 1 ELSE 0
        revisions == IF passed = 1 THEN 0 ELSE d.rev
        base_days == BASE_TURNAROUND_DAYS(module)
        total_days == base_days + revisions * DAYS_PER_REVISION + d.jitter
        cert_date == submission + total_days
        is_pending == d.upend < PendingRate
    IN [application_id |-> app.application_id,
        passed_first_time |-> passed,
        total_revisions |-> revisions,
        certification_date |-> IF is_pending THEN NoDate ELSE strftime(cert_date)]

\* One row of generate_cert_results.
CertRow(app, cl, d) ==
    LET module == app.mid_module
        mfr_size == Lookup(cl, "client_id", app.client_id, "manufacturer_size")
        submission == strptime(app.submission_date)
        pass_rate == FIRST_TIME_PASS_RATES(module, mfr_size)
        passed == IF d.u < pass_rate THEN 1 ELSE 0
        revisions == Revisions(passed, d.rev)
        base_days == BASE_TURNAROUND_DAYS(module)
        total_days == base_days + revisions * DAYS_PER_REVISION + d.jitter
        cert_date == submission + total_days
        is_recent == submission > END_DATE - PendingWindow
        is_pending == is_recent /\ d.upend < PendingRate
    IN [application_id |-> CertApplicationId(app),
        passed_first_time |-> passed,
        total_revisions |-> revisions,
        certification_date |-> IF is_pending THEN NoDate ELSE strftime(cert_date)]

FailureReasons_swapped(module) ==
    IF module = "B" THEN MODULE_D_FAILURE_REASONS ELSE MODULE_B_FAILURE_REASONS

\* MODULE_B_FAILURE_REASONS if module == 'B' else MODULE_D_FAILURE_REASONS
FailureReasons(module) ==
    IF module = "B" THEN MODULE_B_FAILURE_REASONS ELSE MODULE_D_FAILURE_REASONS

TotalAudits_no_final(num_revisions) == num_revisions

\* total_audits = 1 + num_revisions
TotalAudits(num_revisions) == 1 + num_revisions

AuditOffset_one_based_unclamped(i, span, total_audits) ==
    LET days_between == IF total_audits > 1 THEN span \div total_audits ELSE span
    IN (i + 2) * days_between

AuditOffset_interior_spacing(i, span, total_audits) ==
    LET days_between == span \div (total_audits + 1)
    IN Min((i + 1) * days_between, span)

AuditOffset_counting_down(i, span, total_audits) ==
    LET days_between == IF total_audits > 1 THEN span \div total_audits ELSE span
    IN Min((total_audits - i) * days_between, span)

\* The offset in days of audit i (0-based) of an application.
AuditOffset(i, span, total_audits) ==
    LET days_between == IF total_audits > 1 THEN span \div total_audits ELSE span
    IN Min((i + 1) * days_between, span)

AuditStatus_pending_ignored(i, total_audits, cert_date_str, reason) ==
    LET is_final == (i = total_audits - 1)
    IN IF is_final THEN <<"PASS", NULL>> ELSE <<"FAIL", reason>>

AuditStatus_reason_dropped(i, total_audits, cert_date_str, reason) ==
    LET is_final == (i = total_audits - 1)
    IN IF is_final /\ cert_date_str # NoDate THEN <<"PASS", NULL>>
       ELSE IF is_final /\ cert_date_str = NoDate THEN <<"PENDING", NULL>>
       ELSE <<"FAIL", NULL>>

\* The status and reason of audit i (0-based); reason is the weighted_choice draw.
AuditStatus(i, total_audits, cert_date_str, reason) ==
    LET is_final == (i = total_audits - 1)
    IN IF is_final /\ cert_date_str # NoDate THEN <<"PASS", NULL>>
       ELSE IF is_final /\ cert_date_str = NoDate THEN <<"PENDING", NULL>>
       ELSE <<"FAIL", reason>>

\* The audit rows of one application (the body of the outer loop of
\* generate_audit_results), without their audit_id; reasons[i+1] is the
\* weighted_choice draw of audit i, which only a non-final audit makes.
AppAudits(app_id, ap, ce, reasons) ==
    LET module == Lookup(ap, "application_id", app_id, "mid_module")
        submission == strptime(Lookup(ap, "application_id", app_id, "submission_date"))
        cert_date_str == Lookup(ce, "application_id", app_id, "certification_date")
        num_revisions == Lookup(ce, "application_id", app_id, "total_revisions")
        total_audits == TotalAudits(num_revisions)
        span == IF cert_date_str # NoDate
                THEN strptime(cert_date_str) - submission
                ELSE BASE_TURNAROUND_DAYS(module) + num_revisions * DAYS_PER_REVISION
    IN [k \in 1..total_audits |->
          LET i == k - 1
              sr == AuditStatus(i, total_audits, cert_date_str,
                                IF k \in DOMAIN reasons THEN reasons[k] ELSE NULL)
          IN [application_id |-> app_id,
              audit_date |-> strftime(submission + AuditOffset(i, span, total_audits)),
              audit_status |-> sr[1],
              failure_reason |-> sr[2]]]

\* The draws of weighted_choice over a failure-reason table, as positions.
ReasonDraws == {j \in 1..Min(MaxChoice, Len(MODULE_B_FAILURE_REASONS)) :
                  MODULE_B_FAILURE_REASONS[j][2] > 0 /\ MODULE_D_FAILURE_REASONS[j][2] > 0}

\* The audit rows the outer loop can build for the first k applications.
RECURSIVE AllAudits(_, _, _)
AllAudits(k, ap, ce) ==
    IF k = 0 THEN {<<>>}
    ELSE LET app_id == ap[k].application_id
             table == FailureReasons(Lookup(ap, "application_id", app_id, "mid_module"))
             fails == Lookup(ce, "application_id", app_id, "total_revisions")
             mine == {AppAudits(app_id, ap, ce, [j \in 1..fails |-> table[d[j]][1]]) :
                        d \in [1..fails -> ReasonDraws]}
         IN {t \o a : t \in AllAudits(k - 1, ap, ce), a \in mine}

\* audit_id from the running audit_num
Numbered(rows) ==
    [n \in 1..Len(rows) |->
       [audit_id |-> fmt_audit_id(n),
        application_id |-> rows[n].application_id,
        audit_date |-> rows[n].audit_date,
        audit_status |-> rows[n].audit_status,
        failure_reason |-> rows[n].failure_reason]]

\* The tables a loop can build: row k is any element of rowsOf[k].
RECURSIVE Tables(_, _)
Tables(n, rowsOf) ==
    IF n = 0 THEN {<<>>}
    ELSE {Append(t, r) : t \in Tables(n - 1, rowsOf), r \in rowsOf[n]}

GenerateClients ==
    /\ pc = "clients"
    /\ LET rowsOf == [i \in 1..NumClients |-> {ClientRow(i, d) : d \in ClientDraws}]
       IN clients' \in Tables(NumClients, rowsOf)
    /\ pc' = "apps"
    /\ UNCHANGED <<apps, certs, audits, results, verdict, db, log, checklist, savings>>

GenerateApplications ==
    /\ pc = "apps"
    /\ LET rowsOf == [i \in 1..NumApplications |-> {AppRow(i, d, clients) : d \in AppDraws}]
       IN \E rows \in Tables(NumApplications, rowsOf) : apps' \in SortedBySubmission(rows)
    /\ pc' = "certs"
    /\ UNCHANGED <<clients, certs, audits, results, verdict, db, log, checklist, savings>>

GenerateCertResults ==
    /\ pc = "certs"
    /\ LET rowsOf == [k \in 1..Len(apps) |-> {CertRow(apps[k], clients, d) : d \in CertDraws}]
       IN certs' \in Tables(Len(apps), rowsOf)
    /\ pc' = "audits"
    /\ UNCHANGED <<clients, apps, audits, results, verdict, db, log, checklist, savings>>

\* generate_audit_results, then main's to_csv of the four tables
GenerateAuditResults ==
    /\ pc = "audits"
    /\ \E rows \in AllAudits(Len(apps), apps, certs) : audits' = Numbered(rows)
    /\ pc' = "saved"
    /\ UNCHANGED <<clients, apps, certs, results, verdict, db, log, checklist, savings>>

\* ------------------------------------------------------------ validator
VALID_MFR_SIZES == {"SME", "Large"}
VALID_SECTORS == {"Energy", "Utilities", "Retail Fuel", "Transportation", "Multi-sector"}
VALID_INSTRUMENTS == {"Gas Meter", "Electricity Meter", "Water Meter", "Dispenser", "Taximeter"}
VALID_MODULES == {"B", "D"}
VALID_RISK == {"Low", "Medium", "High"}
VALID_STATUS == {"PASS", "FAIL", "PENDING"}

Rows(t) == 1..Len(t)

\* pd.to_datetime(col, errors='coerce') of a non-missing date string
to_datetime(s) == strptime(s)

\* DataQualityChecker._add
Result(name, passed, issues, severity) ==
    [name |-> name, passed |-> passed, issues |-> issues, severity |-> severity]

\* str.match of an id against ^PREFIX\d{width}$
MatchesPattern(id, prefix, width) ==
    /\ Len(id) = width + 1
    /\ id[1] = prefix
    /\ \A k \in 2..Len(id) : id[k] \in 0..9

\* Whether audit row i sorts at or after audit row j by audit_date (NaT last).
SortsAtOrAfter(au, i, j) ==
    \/ au[i].audit_date = NoDate
    \/ /\ au[j].audit_date # NoDate
       /\ to_datetime(au[i].audit_date) >= to_datetime(au[j].audit_date)

GroupRows(au, a) == {i \in Rows(au) : au[i].application_id = a}

GroupKeys(au) == {au[i].application_id : i \in Rows(au)}

\* audits.sort_values('audit_date').groupby('application_id').last(): for each
\* application the row the sort leaves last.  The sort is not stable, so any
\* row with the latest date of its group can be the last one.
Finals(au) ==
    {f \in [GroupKeys(au) -> Rows(au)] :
       \A a \in GroupKeys(au) :
          /\ f[a] \in GroupRows(au, a)
          /\ \A j \in GroupRows(au, a) : SortsAtOrAfter(au, f[a], j)}

check_client_fields(cl) ==
    LET missing == Cardinality({<<i, c>> \in Rows(cl) \X {"company_name", "manufacturer_size", "sector"} :
                                 cl[i][c] = NULL})
    IN Result("1.1 Client fields complete", missing = 0, missing,
              IF missing > 0 THEN "CRITICAL" ELSE "OK")

check_app_fields(ap) ==
    LET missing == Cardinality({<<i, c>> \in Rows(ap) \X {"instrument_type", "mid_module", "risk_class"} :
                                 ap[i][c] = NULL})
                   + Cardinality({i \in Rows(ap) : ap[i].submission_date = NoDate})
    IN Result("1.2 Application fields complete", missing = 0, missing,
              IF missing > 0 THEN "CRITICAL" ELSE "OK")

check_cert_dates(ce, au, final) ==
    LET missing == Cardinality({i \in Rows(ce) : ce[i].certification_date = NoDate})
        legit_pending == Cardinality({a \in DOMAIN final : au[final[a]].audit_status = "PENDING"})
        unexplained == missing - legit_pending
    IN Result("1.3 Certification dates", unexplained = 0, missing,
              IF unexplained > 0 THEN "CRITICAL" ELSE "INFO")

check_audit_dates(au) ==
    LET missing == Cardinality({i \in Rows(au) : au[i].audit_date = NoDate})
    IN Result("1.4 Audit dates complete", missing = 0, missing,
              IF missing > 0 THEN "CRITICAL" ELSE "OK")

check_id_formats(cl, ap, au) ==
    LET bad_cli == Cardinality({i \in Rows(cl) : ~MatchesPattern(cl[i].client_id, "CLI", 4)})
        bad_app == Cardinality({i \in Rows(ap) : ~MatchesPattern(ap[i].application_id, "APP", 5)})
        bad_aud == Cardinality({i \in Rows(au) : ~MatchesPattern(au[i].audit_id, "AUD", 5)})
        total == bad_cli + bad_app + bad_aud
    IN Result("2.1 ID format validity", total = 0, total,
              IF total > 0 THEN "WARNING" ELSE "OK")

check_categorical_values(cl, ap, au) ==
    LET issues == Cardinality({i \in Rows(cl) : cl[i].manufacturer_size \notin VALID_MFR_SIZES})
                  + Cardinality({i \in Rows(cl) : cl[i].sector \notin VALID_SECTORS})
                  + Cardinality({i \in Rows(ap) : ap[i].instrument_type \notin VALID_INSTRUMENTS})
                  + Cardinality({i \in Rows(ap) : ap[i].mid_module \notin VALID_MODULES})
                  + Cardinality({i \in Rows(ap) : ap[i].risk_class \notin VALID_RISK})
                  + Cardinality({i \in Rows(au) : au[i].audit_status \notin VALID_STATUS})
    IN Result("2.2 Categorical values valid", issues = 0, issues,
              IF issues > 0 THEN "CRITICAL" ELSE "OK")

check_revision_counts(ce) ==
    LET neg == Cardinality({i \in Rows(ce) : ce[i].total_revisions < 0})
        high == Cardinality({i \in Rows(ce) : ce[i].total_revisions > MAX_REVISIONS})
        total == neg + high
    IN Result("2.3 Revision counts valid", total = 0, total,
              IF neg > 0 THEN "CRITICAL" ELSE IF high > 0 THEN "WARNING" ELSE "OK")

check_binary_flags(ce) ==
    LET invalid == Cardinality({i \in Rows(ce) : ce[i].passed_first_time \notin {0, 1}})
    IN Result("2.4 Binary flags valid", invalid = 0, invalid,
              IF invalid > 0 THEN "CRITICAL" ELSE "OK")

\* certs.merge(apps[['application_id', 'submission_date']], on='application_id'),
\* restricted to the rows with a certification date
Dated(ce, ap) ==
    {<<i, k>> \in Rows(ce) \X Rows(ap) :
       /\ ce[i].application_id = ap[k].application_id
       /\ ce[i].certification_date # NoDate}

check_date_order(ce, ap) ==
    LET violations == Cardinality({m \in Dated(ce, ap) :
                         /\ ap[m[2]].submission_date # NoDate
                         /\ to_datetime(ce[m[1]].certification_date)
                              <= to_datetime(ap[m[2]].submission_date)})
    IN Result("3.1 Date order (submit -> cert)", violations = 0, violations,
              IF violations > 0 THEN "CRITICAL" ELSE "OK")

TurnaroundDays(ce, ap, m) ==
    to_datetime(ce[m[1]].certification_date) - to_datetime(ap[m[2]].submission_date)

check_turnaround_range(ce, ap) ==
    LET known == {m \in Dated(ce, ap) : ap[m[2]].submission_date # NoDate}
        short == Cardinality({m \in known : TurnaroundDays(ce, ap, m) < MIN_TURNAROUND})
        long == Cardinality({m \in known : TurnaroundDays(ce, ap, m) > MAX_TURNAROUND})
        total == short + long
    IN Result("3.2 Turnaround range", total = 0, total,
              IF total > 0 THEN "WARNING" ELSE "OK")

\* A group equals its sorted self iff no row comes before a row it sorts
\* strictly after (a group has few rows, which the sort keeps in order when
\* their dates are equal).
check_audit_sequence(au) ==
    LET violations == Cardinality({a \in GroupKeys(au) :
                         \E i, j \in GroupRows(au, a) : i < j /\ ~SortsAtOrAfter(au, j, i)})
    IN Result("3.3 Audit date sequence", violations = 0, violations,
              IF violations > 0 THEN "WARNING" ELSE "OK")

check_pass_revision_consistency(ce) ==
    LET bad == Cardinality({i \in Rows(ce) :
                              ce[i].passed_first_time = 1 /\ ce[i].total_revisions > 0})
    IN Result("3.4 Pass/revision consistency", bad = 0, bad,
              IF bad > 0 THEN "CRITICAL" ELSE "OK")

check_audit_count_consistency(ce, au) ==
    LET merged == {<<a, i>> \in GroupKeys(au) \X Rows(ce) : ce[i].application_id = a}
        mismatches == Cardinality({m \in merged :
                         Cardinality(GroupRows(au, m[1])) # 1 + ce[m[2]].total_revisions})
    IN Result("3.5 Audit count consistency", mismatches = 0, mismatches,
              IF mismatches > 0 THEN "WARNING" ELSE "OK")

check_app_client_ref(cl, ap) ==
    LET valid == {cl[i].client_id : i \in Rows(cl)}
        orphans == Cardinality({i \in Rows(ap) : ap[i].client_id \notin valid})
    IN Result("4.1 App -> Client ref", orphans = 0, orphans,
              IF orphans > 0 THEN "CRITICAL" ELSE "OK")

check_cert_app_ref(ce, ap) ==
    LET valid == {ap[i].application_id : i \in Rows(ap)}
        orphans == Cardinality({i \in Rows(ce) : ce[i].application_id \notin valid})
    IN Result("4.2 Cert -> App ref", orphans = 0, orphans,
              IF orphans > 0 THEN "CRITICAL" ELSE "OK")

check_audit_app_ref(au, ap) ==
    LET valid == {ap[i].application_id : i \in Rows(ap)}
        orphans == Cardinality({i \in Rows(au) : au[i].application_id \notin valid})
    IN Result("4.3 Audit -> App ref", orphans = 0, orphans,
              IF orphans > 0 THEN "CRITICAL" ELSE "OK")

check_one_to_one_cert(ce, ap) ==
    LET app_ids == {ap[i].application_id : i \in Rows(ap)}
        cert_ids == {ce[i].application_id : i \in Rows(ce)}
        missing == Cardinality(app_ids \ cert_ids)
        dupes == Cardinality({i \in Rows(ce) :
                    \E j \in Rows(ce) : j < i /\ ce[j].application_id = ce[i].application_id})
        total == missing + dupes
    IN Result("4.4 One-to-one app<->cert", total = 0, total,
              IF total > 0 THEN "CRITICAL" ELSE "OK")

check_fail_has_reason(au) ==
    LET no_reason == Cardinality({i \in Rows(au) :
                        au[i].audit_status = "FAIL" /\ au[i].failure_reason = NULL})
    IN Result("5.1 FAIL has reason", no_reason = 0, no_reason,
              IF no_reason > 0 THEN "CRITICAL" ELSE "OK")

check_pass_no_reason(au) ==
    LET has_reason == Cardinality({i \in Rows(au) :
                         au[i].audit_status = "PASS" /\ au[i].failure_reason # NULL})
    IN Result("5.2 PASS has no reason", has_reason = 0, has_reason,
              IF has_reason > 0 THEN "WARNING" ELSE "OK")

check_final_status_alignment_pass_only(ce, au, final) ==
    LET merged == {<<a, i>> \in (DOMAIN final) \X Rows(ce) : ce[i].application_id = a}
        pass_no_cert == Cardinality({m \in merged :
                           /\ ce[m[2]].certification_date = NoDate
                           /\ au[final[m[1]]].audit_status = "PASS"})
    IN Result("5.3 Final audit<->cert alignment", pass_no_cert = 0, pass_no_cert,
              IF pass_no_cert > 0 THEN "CRITICAL" ELSE "OK")

check_final_status_alignment(ce, au, final) ==
    LET merged == {<<a, i>> \in (DOMAIN final) \X Rows(ce) : ce[i].application_id = a}
        cert_not_pass == Cardinality({m \in merged :
                            /\ ce[m[2]].certification_date # NoDate
                            /\ au[final[m[1]]].audit_status # "PASS"})
        pass_no_cert == Cardinality({m \in merged :
                           /\ ce[m[2]].certification_date = NoDate
                           /\ au[final[m[1]]].audit_status = "PASS"})
        total == cert_not_pass + pass_no_cert
    IN Result("5.3 Final audit<->cert alignment", total = 0, total,
              IF total > 0 THEN "CRITICAL" ELSE "OK")

\* The results of run_all, in the order the checks run.
run_all(cl, ap, ce, au, final) ==
    << check_client_fields(cl), check_app_fields(ap), check_cert_dates(ce, au, final),
       check_audit_dates(au),
       check_id_formats(cl, ap, au), check_categorical_values(cl, ap, au),
       check_revision_counts(ce), check_binary_flags(ce),
       check_date_order(ce, ap), check_turnaround_range(ce, ap), check_audit_sequence(au),
       check_pass_revision_consistency(ce), check_audit_count_consistency(ce, au),
       check_app_client_ref(cl, ap), check_cert_app_ref(ce, ap), check_audit_app_ref(au, ap),
       check_one_to_one_cert(ce, ap),
       check_fail_has_reason(au), check_pass_no_reason(au),
       check_final_status_alignment(ce, au, final) >>

Verdict_warning_first(res) ==
    IF Cardinality({i \in Rows(res) : res[i].severity = "WARNING"}) > 0
        THEN "Acceptable with warnings"
    ELSE IF Cardinality({i \in Rows(res) : res[i].severity = "CRITICAL"}) > 0
        THEN "Critical issues found"
    ELSE "All checks passed"

\* counts[sev] of print_report
SeverityCount(res, sev) == Cardinality({i \in Rows(res) : res[i].severity = sev})

\* The verdict print_report prints.
Verdict(res) ==
    IF SeverityCount(res, "CRITICAL") > 0 THEN "Critical issues found"
    ELSE IF SeverityCount(res, "WARNING") > 0 THEN "Acceptable with warnings"
    ELSE "All checks passed"

\* DataQualityChecker(data_dir) and run_all()
RunAll ==
    /\ pc = "saved"
    /\ \E final \in Finals(audits) : results' = run_all(clients, apps, certs, audits, final)
    /\ pc' = "checked"
    /\ UNCHANGED <<clients, apps, certs, audits, verdict, db, log, checklist, savings>>

PrintReport ==
    /\ pc = "checked"
    /\ verdict' = Verdict(results)
    /\ pc' = "reported"
    /\ UNCHANGED <<clients, apps, certs, audits, results, db, log, checklist, savings>>

Init ==
    /\ pc = "clients"
    /\ clients = <<>>
    /\ apps = <<>>
    /\ certs = <<>>
    /\ audits = <<>>
    /\ results = <<>>
    /\ verdict = NULL
    /\ db = NoDatabase
    /\ log = <<>>
    /\ checklist = NoChecklist
    /\ savings = NoSavings

Next ==
    \/ GenerateClients
    \/ GenerateApplications
    \/ GenerateCertResults
    \/ GenerateAuditResults
    \/ RunAll
    \/ PrintReport

Spec == Init /\ [][Next]_vars

\* ---------------------------------------------- one application, all spans
\* The synthesizer run with one client and one application, taken after
\* generate_cert_results, over every jitter and every revision count.
OneAppDates == {START_DATE, END_DATE - PendingWindow, END_DATE - PendingWindow + 1, END_DATE}

OneAppDraws ==
    {[client |-> 1, date |-> dt, module |-> m, u |-> 99, pick |-> "Gas Meter",
      w |-> INSTRUMENT_TYPE_DIST[1][1], risk |-> RISK_CLASS_DIST[1][1]] :
       dt \in OneAppDates, m \in Labels(MID_MODULE_DIST)}

OneCertDraws ==
    [u : {0, 99},
     rev : Labels(REVISION_DIST),
     jitter : (0 - MaxJitter)..MaxJitter,
     upend : {0, 99}]

InitOne ==
    /\ pc = "audits"
    /\ clients \in {<<ClientRow(1, d)>> : d \in ClientDraws}
    /\ apps \in {<<AppRow(1, d, clients)>> : d \in OneAppDraws}
    /\ certs \in {<<CertRow(apps[1], clients, d)>> : d \in OneCertDraws}
    /\ audits = <<>>
    /\ results = <<>>
    /\ verdict = NULL
    /\ db = NoDatabase
    /\ log = <<>>
    /\ checklist = NoChecklist
    /\ savings = NoSavings

NextOne ==
    \/ GenerateAuditResults
    \/ RunAll
    \/ PrintReport

SpecOne == InitOne /\ [][NextOne]_vars

\* ------------------------------------------- the validator on any dataset
\* Datasets that need not come from the synthesizer: one client, two
\* applications, one or two certification results and up to MaxAnyAudits
\* audit rows.
MaxAnyAudits == 2

AnyClient ==
    [client_id |-> fmt_client_id(1), company_name |-> <<"Euro", "Meters", "Ltd">>,
     manufacturer_size |-> "SME", sector |-> "Energy"]

AnyApp(i) ==
    [application_id |-> fmt_app_id(i), client_id |-> fmt_client_id(1),
     submission_date |-> strftime(START_DATE), instrument_type |-> "Gas Meter",
     mid_module |-> IF i = 1 THEN "B" ELSE "D", risk_class |-> "Low"]

AnyDates == {strftime(START_DATE + 30), strftime(START_DATE + 60)}

AnyCertRows(i) ==
    {[application_id |-> fmt_app_id(i), passed_first_time |-> pr[1],
      total_revisions |-> pr[2], certification_date |-> d] :
       pr \in IF i = 1 THEN {<<1, 0>>, <<0, 1>>} ELSE {<<1, 0>>},
       d \in {NoDate, strftime(START_DATE + 60)}}

AnyAuditRows ==
    [application_id : {fmt_app_id(1), fmt_app_id(2)},
     audit_date : AnyDates,
     audit_status : VALID_STATUS,
     failure_reason : {NULL, MODULE_B_FAILURE_REASONS[1][1]}]

InitAny ==
    /\ pc = "saved"
    /\ clients = <<AnyClient>>
    /\ apps = <<AnyApp(1), AnyApp(2)>>
    /\ certs \in UNION {Tables(n, [i \in 1..n |-> AnyCertRows(i)]) : n \in 1..2}
    /\ audits \in {Numbered(t) :
                     t \in UNION {Tables(n, [i \in 1..n |-> AnyAuditRows]) : n \in 0..MaxAnyAudits}}
    /\ results = <<>>
    /\ verdict = NULL
    /\ db = NoDatabase
    /\ log = <<>>
    /\ checklist = NoChecklist
    /\ savings = NoSavings

NextAny ==
    \/ RunAll
    \/ PrintReport

SpecAny == InitAny /\ [][NextAny]_vars

\* ------------------------------------------------------ relational loader
\* load_data's tables, in load order
LoadOrder == <<"clients", "applications", "certification_results", "audit_results">>

\* The loader is about to load LoadOrder[k] when pc = LoadPc[k].
LoadPc == <<"load_clients", "load_applications", "load_certification_results",
            "load_audit_results">>

\* pd.read_csv of a table's file: the rows main's to_csv wrote; an empty
\* field comes back missing and is inserted as SQL NULL.
read_csv(table) ==
    CASE table = "clients" -> clients
      [] table = "applications" -> apps
      [] table = "certification_results" -> certs
      [] table = "audit_results" -> audits

\* PRIMARY KEY on a TEXT column: no two rows with the same key.
PrimaryKey(old, rows, key) ==
    /\ \A i, j \in Rows(rows) : i # j => rows[i][key] # rows[j][key]
    /\ \A i \in Rows(rows), j \in Rows(old) : rows[i][key] # old[j][key]

\* TEXT NOT NULL on string columns and on date columns
NotNull(rows, strings, dates) ==
    /\ \A i \in Rows(rows), c \in strings : ~(rows[i][c] = NULL)
    /\ \A i \in Rows(rows), c \in dates : rows[i][c] # NoDate

\* FOREIGN KEY (col) REFERENCES parent(key), enforced only under
\* PRAGMA foreign_keys = ON
ForeignKey_unenforced(d, rows, col, parent, key) == TRUE

ForeignKey(d, rows, col, parent, key) ==
    d.foreign_keys =>
        \A i \in Rows(rows) : \E j \in Rows(d[parent]) : d[parent][j][key] = rows[i][col]

\* The CHECK(col IN (...)) clauses of CREATE TABLE, per table and column.
DomainChecks ==
    [clients |-> [manufacturer_size |-> {"SME", "Large"}],
     applications |-> [mid_module |-> {"B", "D"},
                       risk_class |-> {"Low", "Medium", "High"}],
     certification_results |-> [passed_first_time |-> {0, 1}],
     audit_results |-> [audit_status |-> {"PASS", "FAIL", "PENDING"}]]

\* The CHECK(col IN (...)) clauses of a table hold of every row.
Check(table, rows) ==
    \A i \in Rows(rows), c \in DOMAIN DomainChecks[table] :
       rows[i][c] \in DomainChecks[table][c]

\* Whether INSERT of rows into a table of database d violates no constraint
\* of the table's CREATE TABLE statement.
Accepts(table, d, rows) ==
    CASE table = "clients" ->
           /\ PrimaryKey(d.clients, rows, "client_id")
           /\ NotNull(rows, {"company_name", "manufacturer_size", "sector"}, {})
           /\ Check(table, rows)
      [] table = "applications" ->
           /\ PrimaryKey(d.applications, rows, "application_id")
           /\ NotNull(rows, {"instrument_type", "mid_module", "risk_class"},
                      {"submission_date"})
           /\ Check(table, rows)
           /\ ForeignKey(d, rows, "client_id", "clients", "client_id")
      [] table = "certification_results" ->
           /\ PrimaryKey(d.certification_results, rows, "application_id")
           /\ Check(table, rows)
           /\ \A i \in Rows(rows) : rows[i].total_revisions >= 0
           /\ ForeignKey(d, rows, "application_id", "applications", "application_id")
      [] table = "audit_results" ->
           /\ PrimaryKey(d.audit_results, rows, "audit_id")
           /\ NotNull(rows, {"audit_status"}, {"audit_date"})
           /\ Check(table, rows)
           /\ ForeignKey(d, rows, "application_id", "applications", "application_id")

\* main up to and including create_schema: a fresh database file,
\* PRAGMA foreign_keys = ON, the four empty tables and their indexes.
CreateSchema ==
    /\ pc = "saved"
    /\ db' = [NoDatabase EXCEPT !.foreign_keys = TRUE, !.schema = TRUE]
    /\ log' = <<"Created 4 tables with 7 indexes">>
    /\ pc' = LoadPc[1]
    /\ UNCHANGED <<clients, apps, certs, audits, results, verdict, checklist, savings>>

LoadNext_continue_after_error(k, accepted) ==
    IF k < Len(LoadOrder) THEN LoadPc[k + 1] ELSE "views"

\* Where main goes after df.to_sql of LoadOrder[k]: an IntegrityError leaves
\* load_data and main (finally: conn.close()).
LoadNext(k, accepted) ==
    IF ~accepted THEN "load_failed"
    ELSE IF k < Len(LoadOrder) THEN LoadPc[k + 1] ELSE "views"

\* One round of load_data's loop: read_csv, then to_sql, which inserts all
\* rows in one transaction and rolls it back when a row violates a constraint.
LoadTable ==
    \E k \in DOMAIN LoadOrder :
       LET table == LoadOrder[k]
           df == read_csv(table)
           accepted == Accepts(table, db, df)
       IN /\ pc = LoadPc[k]
          /\ db' = IF accepted THEN [db EXCEPT ![table] = @ \o df] ELSE db
          /\ log' = IF accepted THEN Append(log, table) ELSE log
          /\ pc' = LoadNext(k, accepted)
          /\ UNCHANGED <<clients, apps, certs, audits, results, verdict, checklist, savings>>

ViewNames ==
    {"v_application_details", "v_failures", "v_monthly_throughput",
     "v_module_comparison", "v_client_performance"}

CreateViews ==
    /\ pc = "views"
    /\ db' = [db EXCEPT !.views = ViewNames]
    /\ log' = Append(log, "Created 5 views")
    /\ pc' = "verify"
    /\ UNCHANGED <<clients, apps, certs, audits, results, verdict, checklist, savings>>

\* verify, then main's report of completion
Verify ==
    /\ pc = "verify"
    /\ log' = log \o <<"Verification", "Done">>
    /\ pc' = "done"
    /\ UNCHANGED <<clients, apps, certs, audits, results, verdict, db, checklist, savings>>

\* ------------------------------------------------------- relational store
\* View v_failures: the FAIL rows of audit_results joined to their
\* application and to its client, in audit_results order.
v_failures(d) ==
    LET app(r) == {a \in Rows(d.applications) :
                     d.applications[a].application_id = r.application_id}
        cli(a) == {c \in Rows(d.clients) :
                     d.clients[c].client_id = d.applications[a].client_id}
        kept == SelectSeq(d.audit_results,
                          LAMBDA r : r.audit_status = "FAIL" /\ \E a \in app(r) : cli(a) # {})
    IN [n \in 1..Len(kept) |->
          LET a == CHOOSE a \in app(kept[n]) : cli(a) # {}
              c == CHOOSE c \in cli(a) : TRUE
          IN [audit_id |-> kept[n].audit_id,
              application_id |-> kept[n].application_id,
              audit_date |-> kept[n].audit_date,
              failure_reason |-> kept[n].failure_reason,
              mid_module |-> d.applications[a].mid_module,
              instrument_type |-> d.applications[a].instrument_type,
              risk_class |-> d.applications[a].risk_class,
              manufacturer_size |-> d.clients[c].manufacturer_size]]

\* ------------------------------------------------------ checklist builder
\* Cumulative share, in percent, up to which a reason is HIGH / MEDIUM.
HighShare == 50
MediumShare == 80

\* for module in [None, 'B', 'D']
Modules == <<NULL, "B", "D">>

\* title = f"Module {module}" if module else "All Modules"
Title(module) ==
    IF module = NULL THEN "All Modules"
    ELSE IF module = "B" THEN "Module B" ELSE "Module D"

\* FROM v_failures {where}
Selected(d, module) ==
    SelectSeq(v_failures(d), LAMBDA r : module = NULL \/ r.mid_module = module)

\* COUNT(*) of one failure_reason group
Occurrences(sel, reason) ==
    Cardinality({i \in Rows(sel) : sel[i].failure_reason = reason})

\* ROUND(num * 100.0 / den, 1) in tenths of a percent; SQLite rounds a half up.
ROUND_pct(num, den) == (2000 * num + den) \div (2 * den)

OrderedDesc_ascending(first, second) == first <= second

\* ORDER BY occurrences DESC: whether a row with count first may precede a
\* row with count second.
OrderedDesc(first, second) == first >= second

\* GROUP BY failure_reason ORDER BY occurrences DESC: one row per distinct
\* reason; SQL leaves the order of rows with equal counts open, so every
\* such order is a possible result.
Ranked(sel) ==
    LET reasons == {sel[i].failure_reason : i \in Rows(sel)}
        n == Cardinality(reasons)
    IN {p \in [1..n -> reasons] :
          /\ \A i, j \in 1..n : i < j => p[i] # p[j]
          /\ \A i, j \in 1..n :
                i < j => OrderedDesc(Occurrences(sel, p[i]), Occurrences(sel, p[j]))}

\* df['pct'].cumsum() up to row k
RECURSIVE cumsum(_, _)
cumsum(pct, k) == IF k = 0 THEN 0 ELSE cumsum(pct, k - 1) + pct[k]

assign_priority_exclusive(cumulative_pct) ==
    IF cumulative_pct < 10 * HighShare THEN "HIGH"
    ELSE IF cumulative_pct < 10 * MediumShare THEN "MEDIUM"
    ELSE "LOW"

assign_priority(cumulative_pct) ==
    IF cumulative_pct <= 10 * HighShare THEN "HIGH"
    ELSE IF cumulative_pct <= 10 * MediumShare THEN "MEDIUM"
    ELSE "LOW"

\* The tables build_checklist(conn, module) can return.
build_checklist(d, module) ==
    LET sel == Selected(d, module)
        pct(p) == [k \in DOMAIN p |-> ROUND_pct(Occurrences(sel, p[k]), Len(sel))]
    IN {[k \in DOMAIN p |->
           [failure_reason |-> p[k],
            occurrences |-> Occurrences(sel, p[k]),
            pct |-> pct(p)[k],
            cumulative_pct |-> cumsum(pct(p), k),
            priority |-> assign_priority(cumsum(pct(p), k))]] : p \in Ranked(sel)}

\* print_checklist: the issues in print order, tier by tier.
print_checklist(df) ==
    LET items(priority) == SelectSeq(df, LAMBDA row : row.priority = priority)
        line(rows) == [k \in DOMAIN rows |-> <<rows[k].priority, rows[k].failure_reason>>]
    IN line(items("HIGH")) \o line(items("MEDIUM")) \o line(items("LOW"))

ChecklistPc == <<"checklist_all", "checklist_B", "checklist_D">>

\* One round of main's loop over [None, 'B', 'D']: build_checklist, then
\* print_checklist.  analyze_failures and calculate_impact before the loop
\* only read and print.  With no failure selected the query returns no row
\* and df.apply(assign_priority, axis=1) returns an empty frame, which
\* pandas either stores as the priority column or refuses with ValueError,
\* depending on its version.
BuildChecklist ==
    \E k \in DOMAIN Modules :
       /\ pc = IF k = 1 THEN "done" ELSE ChecklistPc[k - 1]
       /\ \E df \in build_checklist(db, Modules[k]) :
             \/ /\ checklist' = [title |-> Title(Modules[k]), df |-> df,
                                 printed |-> print_checklist(df)]
                /\ pc' = ChecklistPc[k]
             \/ /\ df = <<>>
                /\ pc' = "checklist_failed"
                /\ UNCHANGED checklist
       /\ UNCHANGED <<clients, apps, certs, audits, results, verdict, db, log, savings>>

\* ------------------------------------------------------ what-if projection
\* LIMIT 3 of the ranked failure reasons
TopReasons == 3
\* "assume 50% prevention", in percent
PreventionRate == 50
\* days_saved = prevented * 12
DaysPerFailure == 12
\* prevented * 0.8, in tenths
PreventedWeight == 8

\* SUM(col) over rows
RECURSIVE SUM(_, _)
SUM(rows, col) ==
    IF rows = <<>> THEN 0 ELSE rows[1][col] + SUM(Tail(rows), col)

\* FROM certification_results WHERE certification_date IS NOT NULL
Certified(d) ==
    SelectSeq(d.certification_results, LAMBDA r : r.certification_date # NoDate)

\* SELECT SUM(n) FROM (SELECT COUNT(*) AS n FROM v_failures GROUP BY
\* failure_reason ORDER BY n DESC LIMIT 3): the sum of the first TopReasons
\* counts, the same for every order of reasons with equal counts.
RECURSIVE SumOfFirst(_, _, _)
SumOfFirst(sel, ranked, k) ==
    IF k = 0 THEN 0
    ELSE SumOfFirst(sel, ranked, k - 1) + Occurrences(sel, ranked[k])

top3_count(d) ==
    LET sel == v_failures(d)
        ranked == CHOOSE p \in Ranked(sel) : TRUE
    IN SumOfFirst(sel, ranked, IF Len(ranked) < TopReasons THEN Len(ranked) ELSE TopReasons)

\* int(total_failures * top3_pct * 0.5) with top3_pct = top_failures /
\* total_failures: the float product equals top_failures / 2 for every
\* total_failures up to 43, and int() drops the half.
Prevented(top_failures, total_failures) ==
    (top_failures * PreventionRate) \div 100

\* (total_apps - failed_apps) / total_apps * 100
current_rate(total_apps, failed_apps) ==
    [num |-> 100 * (total_apps - failed_apps), den |-> total_apps]

\* (total_apps - failed_apps + prevented * 0.8) / total_apps * 100
projected_rate(total_apps, failed_apps, prevented) ==
    [num |-> 100 * (10 * (total_apps - failed_apps) + PreventedWeight * prevented),
     den |-> 10 * total_apps]

\* What estimate_savings(conn) computes and prints.
estimate_savings(d) ==
    LET stats == Certified(d)
        total_apps == Len(stats)
        failed_apps == Len(SelectSeq(stats, LAMBDA r : r.passed_first_time = 0))
        total_failures == Len(v_failures(d))
        prevented == Prevented(top3_count(d), total_failures)
    IN [total_apps |-> total_apps,
        failed_apps |-> failed_apps,
        total_revisions |-> SUM(stats, "total_revisions"),
        top3_count |-> top3_count(d),
        total_failures |-> total_failures,
        prevented |-> prevented,
        days_saved |-> prevented * DaysPerFailure,
        current_rate |-> current_rate(total_apps, failed_apps),
        projected_rate |-> projected_rate(total_apps, failed_apps, prevented)]

\* main after the loop: estimate_savings, then export_csv, which only reads
\* the database.  With no certified application the sums of stats are NULL,
\* and with no failure top3_count is NULL; arithmetic on either raises
\* TypeError and main ends.
EstimateSavings ==
    /\ pc = ChecklistPc[Len(ChecklistPc)]
    /\ IF Certified(db) = <<>> \/ v_failures(db) = <<>>
       THEN pc' = "savings_failed" /\ UNCHANGED savings
       ELSE pc' = "estimated" /\ savings' = estimate_savings(db)
    /\ UNCHANGED <<clients, apps, certs, audits, results, verdict, db, log, checklist>>

\* ---------------------------------------------- the loader on any dataset
\* CSV files that need not come from the synthesizer: one client, one
\* application, one or two certification results and at most one audit row,
\* with values inside and outside what the schema accepts.
LoadClientRows ==
    {[client_id |-> fmt_client_id(1), company_name |-> <<"Euro", "Meters", "Ltd">>,
      manufacturer_size |-> v[1], sector |-> v[2]] :
       v \in {<<"SME", "Energy">>, <<"Medium", "Energy">>, <<"SME", "Mining">>,
              <<"SME", NULL>>}}

LoadAppRows ==
    {[application_id |-> fmt_app_id(1), client_id |-> fmt_client_id(c),
      submission_date |-> strftime(START_DATE), instrument_type |-> t,
      mid_module |-> m, risk_class |-> "Low"] :
       c \in 1..2, t \in {"Gas Meter", "Water meter"}, m \in {"B", "X"}}

LoadCertRows ==
    {[application_id |-> fmt_app_id(v[1]), passed_first_time |-> v[2],
      total_revisions |-> v[3], certification_date |-> strftime(START_DATE + 45)] :
       v \in {<<1, 1, 0>>, <<1, 2, 0>>, <<1, 0, 0 - 1>>, <<2, 1, 0>>}}

LoadAuditRows ==
    {[application_id |-> fmt_app_id(a), audit_date |-> d, audit_status |-> s,
      failure_reason |-> IF s = "FAIL" THEN MODULE_B_FAILURE_REASONS[1][1] ELSE NULL] :
       a \in 1..2, d \in {strftime(START_DATE + 45), NoDate}, s \in {"PASS", "FAIL", "DONE"}}

InitLoad ==
    /\ pc = "saved"
    /\ clients \in {<<r>> : r \in LoadClientRows}
    /\ apps \in {<<r>> : r \in LoadAppRows}
    /\ certs \in UNION {Tables(n, [i \in 1..n |-> LoadCertRows]) : n \in 1..2}
    /\ audits \in {Numbered(t) : t \in UNION {Tables(n, [i \in 1..n |-> LoadAuditRows]) : n \in 0..1}}
    /\ results = <<>>
    /\ verdict = NULL
    /\ db = NoDatabase
    /\ log = <<>>
    /\ checklist = NoChecklist
    /\ savings = NoSavings

NextLoad ==
    \/ CreateSchema
    \/ LoadTable
    \/ CreateViews
    \/ Verify

SpecLoad == InitLoad /\ [][NextLoad]_vars

\* ------------------------------------------- the synthesizer, then the loader
\* main of the synthesizer followed by main of the loader on the CSV files it
\* wrote.
NextPipeline ==
    \/ GenerateClients
    \/ GenerateApplications
    \/ GenerateCertResults
    \/ GenerateAuditResults
    \/ CreateSchema
    \/ LoadTable
    \/ CreateViews
    \/ Verify

SpecPipeline == Init /\ [][NextPipeline]_vars

\* ------------------------------------- the checklist on any set of failures
\* CSV files with one client, one module-B and one module-D application and,
\* for each application and each of three reasons, up to MaxFailures failed
\* audits; loaded, then read by the checklist builder.
MaxFailures == 3

ChecklistReasons ==
    <<MODULE_B_FAILURE_REASONS[1][1], MODULE_B_FAILURE_REASONS[3][1],
      MODULE_D_FAILURE_REASONS[1][1]>>

FailureCounts == [(1..2) \X DOMAIN ChecklistReasons -> 0..MaxFailures]

RECURSIVE FailedAudits(_, _, _)
FailedAudits(i, n, r) ==
    IF r = 0 THEN <<>>
    ELSE FailedAudits(i, n, r - 1) \o
         [k \in 1..n[<<i, r>>] |->
            [application_id |-> fmt_app_id(i), audit_date |-> strftime(START_DATE + 30),
             audit_status |-> "FAIL", failure_reason |-> ChecklistReasons[r]]]

ChecklistAudits(i, n) ==
    Append(FailedAudits(i, n, Len(ChecklistReasons)),
           [application_id |-> fmt_app_id(i), audit_date |-> strftime(START_DATE + 60),
            audit_status |-> "PASS", failure_reason |-> NULL])

ChecklistCert(i, n) ==
    LET fails == Len(FailedAudits(i, n, Len(ChecklistReasons)))
    IN [application_id |-> fmt_app_id(i),
        passed_first_time |-> IF fails = 0 THEN 1 ELSE 0,
        total_revisions |-> fails,
        certification_date |-> strftime(START_DATE + 60)]

InitChecklist ==
    /\ pc = "saved"
    /\ clients = <<AnyClient>>
    /\ apps = <<AnyApp(1), AnyApp(2)>>
    /\ \E n \in FailureCounts :
          /\ certs = <<ChecklistCert(1, n), ChecklistCert(2, n)>>
          /\ audits = Numbered(ChecklistAudits(1, n) \o ChecklistAudits(2, n))
    /\ results = <<>>
    /\ verdict = NULL
    /\ db = NoDatabase
    /\ log = <<>>
    /\ checklist = NoChecklist
    /\ savings = NoSavings

NextChecklist ==
    \/ CreateSchema
    \/ LoadTable
    \/ CreateViews
    \/ Verify
    \/ BuildChecklist
    \/ EstimateSavings

SpecChecklist == InitChecklist /\ [][NextChecklist]_vars

\* ------------------------------------------------------------ properties
CertsGenerated == pc \in {"audits", "saved", "checked", "reported"}

AuditsGenerated == pc \in {"saved", "checked", "reported"}

\* The audit events of an application, in generation order (increasing audit_id).
AuditsOf(app_id) == SelectSeq(audits, LAMBDA r : r.application_id = app_id)

\* The certification results of an application.
CertsOf(app_id) == SelectSeq(certs, LAMBDA r : r.application_id = app_id)

\* C1: every generated application has exactly 1 + total_revisions audit
\* events, total_revisions being that of its certification result.
C1_AuditCount ==
    AuditsGenerated =>
        \A k \in Rows(apps) : \A c \in Rows(certs) :
            certs[c].application_id = apps[k].application_id
                => Len(AuditsOf(apps[k].application_id)) = 1 + certs[c].total_revisions

C1_Witness ==
    /\ AuditsGenerated
    /\ \E c \in Rows(certs) :
          certs[c].total_revisions = 2 /\ Len(AuditsOf(certs[c].application_id)) = 3
    /\ \E c \in Rows(certs) :
          certs[c].total_revisions = 0 /\ Len(AuditsOf(certs[c].application_id)) = 1

\* C2: in every certification result generate_cert_results produces,
\* passed_first_time = 1 implies total_revisions = 0.
C2_PassedMeansNoRevision ==
    CertsGenerated =>
        \A c \in Rows(certs) : certs[c].passed_first_time = 1 => certs[c].total_revisions = 0

C2_Witness ==
    /\ CertsGenerated
    /\ \E c \in Rows(certs) : certs[c].passed_first_time = 1 /\ certs[c].total_revisions = 0
    /\ \E c \in Rows(certs) : certs[c].passed_first_time = 0 /\ certs[c].total_revisions > 0

\* C3: the last audit event of every generated application is PASS exactly
\* when the persisted certification_date is non-null and PENDING exactly when
\* it is null; it is never FAIL.
C3_FinalStatus ==
    AuditsGenerated =>
        \A k \in Rows(apps) : \A c \in Rows(certs) :
            certs[c].application_id = apps[k].application_id =>
                LET mine == AuditsOf(apps[k].application_id)
                    last == mine[Len(mine)].audit_status
                IN /\ Len(mine) > 0
                   /\ (last = "PASS") <=> (certs[c].certification_date # NoDate)
                   /\ (last = "PENDING") <=> (certs[c].certification_date = NoDate)
                   /\ last # "FAIL"

C3_Witness ==
    /\ AuditsGenerated
    /\ \E c \in Rows(certs) :
          /\ certs[c].certification_date = NoDate
          /\ AuditsOf(certs[c].application_id)[Len(AuditsOf(certs[c].application_id))].audit_status
               = "PENDING"
    /\ \E c \in Rows(certs) :
          /\ certs[c].certification_date # NoDate
          /\ AuditsOf(certs[c].application_id)[Len(AuditsOf(certs[c].application_id))].audit_status
               = "PASS"

\* The labels of the reason table of a module, as written in the source.
ReasonTable(module) ==
    IF module = "B" THEN Labels(MODULE_B_FAILURE_REASONS)
    ELSE IF module = "D" THEN Labels(MODULE_D_FAILURE_REASONS)
    ELSE {}

\* C4: of an application with total_revisions = r, the first r audit events
\* are FAIL with a reason of the table of the application's own module, and
\* only event r + 1 is PASS or PENDING.
C4_FailsThenFinal ==
    AuditsGenerated =>
        \A k \in Rows(apps) : \A c \in Rows(certs) :
            certs[c].application_id = apps[k].application_id =>
                LET mine == AuditsOf(apps[k].application_id)
                    r == certs[c].total_revisions
                IN /\ Len(mine) >= r + 1
                   /\ \A j \in 1..r :
                         /\ mine[j].audit_status = "FAIL"
                         /\ mine[j].failure_reason \in ReasonTable(apps[k].mid_module)
                   /\ \A j \in 1..Len(mine) :
                         mine[j].audit_status \in {"PASS", "PENDING"} <=> j = r + 1

C4_Witness ==
    /\ AuditsGenerated
    /\ \E k \in Rows(apps) : \E c \in Rows(certs) :
          /\ certs[c].application_id = apps[k].application_id
          /\ apps[k].mid_module = "D"
          /\ certs[c].total_revisions = 2
          /\ certs[c].certification_date # NoDate
          /\ LET mine == AuditsOf(apps[k].application_id)
             IN /\ Len(mine) = 3
                /\ mine[1].audit_status = "FAIL"
                /\ mine[1].failure_reason \in Labels(MODULE_D_FAILURE_REASONS)
                /\ mine[2].audit_status = "FAIL"
                /\ mine[3].audit_status = "PASS"
    /\ \E k \in Rows(apps) : apps[k].mid_module = "B"

\* C5: an audit event is FAIL exactly when its failure_reason is non-null;
\* PASS and PENDING events have a null failure_reason.
C5_FailIffReason ==
    AuditsGenerated =>
        \A i \in Rows(audits) :
            /\ (audits[i].audit_status = "FAIL") <=> (audits[i].failure_reason # NULL)
            /\ audits[i].audit_status \in {"PASS", "PENDING"} => audits[i].failure_reason = NULL

C5_Witness ==
    /\ AuditsGenerated
    /\ \E i \in Rows(audits) : audits[i].audit_status = "FAIL" /\ audits[i].failure_reason # NULL
    /\ \E i \in Rows(audits) : audits[i].audit_status = "PASS" /\ audits[i].failure_reason = NULL
    /\ \E i \in Rows(audits) : audits[i].audit_status = "PENDING" /\ audits[i].failure_reason = NULL

\* C6: every generated application has exactly one certification result with
\* its application_id, and every certification result belongs to a generated
\* application.
C6_OneToOne ==
    CertsGenerated =>
        /\ \A k \in Rows(apps) : Len(CertsOf(apps[k].application_id)) = 1
        /\ \A c \in Rows(certs) : \E k \in Rows(apps) :
              apps[k].application_id = certs[c].application_id

C6_Witness ==
    /\ CertsGenerated
    /\ Len(apps) = NumApplications
    /\ Len(certs) = NumApplications
    /\ \A k \in Rows(apps) : Len(CertsOf(apps[k].application_id)) = 1
    /\ apps[1].application_id # fmt_app_id(1)

\* C8: the 20 checks of the validator, run on a dataset of the synthesizer,
\* give no result of severity CRITICAL.
C8_NoCritical ==
    pc \in {"checked", "reported"} =>
        /\ Len(results) = 20
        /\ \A i \in Rows(results) : results[i].severity # "CRITICAL"

C8_Witness ==
    /\ pc = "checked"
    /\ Len(results) = 20
    /\ \E c \in Rows(certs) : certs[c].certification_date = NoDate
    /\ \E c \in Rows(certs) : certs[c].total_revisions = 2
    /\ \E i \in Rows(results) : results[i].severity = "INFO" /\ results[i].issues > 0

\* C7: the audit events of a generated application, in generation order, have
\* non-decreasing audit dates, for every span and revision count.
C7_DatesNonDecreasing ==
    AuditsGenerated =>
        \A k \in Rows(apps) :
            LET mine == AuditsOf(apps[k].application_id)
            IN \A i, j \in 1..Len(mine) :
                  i < j => to_datetime(mine[i].audit_date) <= to_datetime(mine[j].audit_date)

C7_Witness ==
    /\ AuditsGenerated
    /\ certs[1].total_revisions = 4
    /\ Len(AuditsOf(apps[1].application_id)) = 5
    /\ to_datetime(certs[1].certification_date) - to_datetime(apps[1].submission_date) = 68
    /\ to_datetime(audits[5].audit_date) < to_datetime(certs[1].certification_date)

\* C9: the verdict depends on the severities of the recorded results only: a
\* CRITICAL result gives the failing verdict; otherwise a WARNING result gives
\* pass-with-warnings; otherwise (OK and INFO only) a clean pass.
C9_VerdictPolicy ==
    pc = "reported" =>
        LET has(sev) == \E i \in Rows(results) : results[i].severity = sev
        IN /\ \A i \in Rows(results) : results[i].severity \in {"OK", "INFO", "WARNING", "CRITICAL"}
           /\ has("CRITICAL") => verdict = "Critical issues found"
           /\ ~has("CRITICAL") /\ has("WARNING") => verdict = "Acceptable with warnings"
           /\ ~has("CRITICAL") /\ ~has("WARNING") => verdict = "All checks passed"

C9_Witness ==
    /\ pc = "reported"
    /\ verdict = "Acceptable with warnings"
    /\ \E i \in Rows(results) : results[i].severity = "WARNING"
    /\ \E i \in Rows(results) : results[i].severity = "INFO" /\ results[i].issues > 0

\* A checklist has been built and printed by the latest round of the loop.
ChecklistBuilt == pc \in {ChecklistPc[k] : k \in DOMAIN ChecklistPc}

\* The module argument of the latest build_checklist call.
ChecklistModule == Modules[CHOOSE k \in DOMAIN ChecklistPc : ChecklistPc[k] = pc]

\* The failure reasons among the failures the latest call selected.
SelectedReasons ==
    LET sel == Selected(db, ChecklistModule)
    IN {sel[i].failure_reason : i \in Rows(sel)}

\* C11: in the table build_checklist returns, every distinct failure reason
\* of the selected failures has exactly one row, and a row is HIGH iff its
\* cumulative percentage is <= 50, MEDIUM iff it is > 50 and <= 80, LOW iff
\* it is > 80 (exactly 50 is HIGH, exactly 80 is MEDIUM).
C11_PriorityTiers ==
    ChecklistBuilt =>
        LET df == checklist.df
        IN /\ \A reason \in SelectedReasons :
                 Cardinality({k \in Rows(df) : df[k].failure_reason = reason}) = 1
           /\ \A k \in Rows(df) :
                 /\ df[k].failure_reason \in SelectedReasons
                 /\ df[k].priority \in {"HIGH", "MEDIUM", "LOW"}
                 /\ df[k].priority = "HIGH" <=> df[k].cumulative_pct <= 10 * HighShare
                 /\ df[k].priority = "MEDIUM" <=>
                       /\ df[k].cumulative_pct > 10 * HighShare
                       /\ df[k].cumulative_pct <= 10 * MediumShare
                 /\ df[k].priority = "LOW" <=> df[k].cumulative_pct > 10 * MediumShare

C11_Witness ==
    /\ ChecklistBuilt
    /\ Len(checklist.df) = 3
    /\ checklist.df[1].cumulative_pct = 10 * HighShare /\ checklist.df[1].priority = "HIGH"
    /\ checklist.df[2].cumulative_pct = 10 * MediumShare /\ checklist.df[2].priority = "MEDIUM"
    /\ checklist.df[3].cumulative_pct = 1000 /\ checklist.df[3].priority = "LOW"

\* The rank of a priority tier.
TierRank(priority) ==
    IF priority = "HIGH" THEN 1 ELSE IF priority = "MEDIUM" THEN 2 ELSE 3

\* C12: the rows of the table build_checklist returns are in descending
\* order of occurrence count and their cumulative percentage never decreases
\* from one row to the next, so no MEDIUM row precedes a HIGH row and no LOW
\* row precedes a HIGH or MEDIUM row; print_checklist, which prints tier by
\* tier, therefore prints the rows in table order.
C12_RankedAndMonotone ==
    ChecklistBuilt =>
        LET df == checklist.df
        IN /\ \A i, j \in Rows(df) :
                 i < j =>
                    /\ df[i].occurrences >= df[j].occurrences
                    /\ df[i].cumulative_pct <= df[j].cumulative_pct
                    /\ TierRank(df[i].priority) <= TierRank(df[j].priority)
           /\ checklist.printed =
                 [k \in Rows(df) |-> <<df[k].priority, df[k].failure_reason>>]

C12_Witness ==
    /\ ChecklistBuilt
    /\ Len(checklist.df) = 3
    /\ checklist.df[1].occurrences > checklist.df[2].occurrences
    /\ checklist.df[2].occurrences > checklist.df[3].occurrences
    /\ checklist.printed[1][1] = "HIGH"
    /\ checklist.printed[2][1] = "MEDIUM"
    /\ checklist.printed[3][1] = "LOW"

\* C13: a checklist built for one module over failures of which at least one
\* is in that module takes each percentage relative to the module's failure
\* count, and the cumulative percentage of its last row, the running sum of
\* the percentages rounded to one decimal, is 100%.
C13_ModuleSharesSumTo100 ==
    ChecklistBuilt /\ ChecklistModule # NULL /\ Len(Selected(db, ChecklistModule)) > 0 =>
        LET df == checklist.df
            total == Len(Selected(db, ChecklistModule))
        IN /\ \A k \in Rows(df) : df[k].pct = ROUND_pct(df[k].occurrences, total)
           /\ df[Len(df)].cumulative_pct = 1000

\* The failure reasons in the order the module reason tables list them.
ReasonEnumeration ==
    [k \in 1..(Len(MODULE_B_FAILURE_REASONS) + Len(MODULE_D_FAILURE_REASONS)) |->
       (MODULE_B_FAILURE_REASONS \o MODULE_D_FAILURE_REASONS)[k][1]]

EnumIndex(reason) == CHOOSE k \in DOMAIN ReasonEnumeration : ReasonEnumeration[k] = reason

\* C14: failure reasons with the same occurrence count are ranked by
\* build_checklist in the order in which the module reason tables list them.
C14_TiesInEnumerationOrder ==
    ChecklistBuilt =>
        LET df == checklist.df
        IN \A i, j \in Rows(df) :
              i < j /\ df[i].occurrences = df[j].occurrences =>
                 EnumIndex(df[i].failure_reason) < EnumIndex(df[j].failure_reason)

\* What the loader prints when nothing fails, in order.
FullLog ==
    <<"Created 4 tables with 7 indexes">> \o LoadOrder \o
    <<"Created 5 views", "Verification", "Done">>

\* The tables whose load the loader has reported.
Loaded == {log[k] : k \in DOMAIN log} \cap {LoadOrder[k] : k \in DOMAIN LoadOrder}

\* Every value of column col in table child is a key of a row of table parent.
References(child, col, parent, key) ==
    \A i \in Rows(db[child]) : \E j \in Rows(db[parent]) : db[parent][j][key] = db[child][i][col]

\* C15: the loader creates the schema, then loads clients, applications,
\* certification_results and audit_results in that order with foreign-key
\* enforcement on, so every row in the database references rows that were
\* loaded before it; the views exist only once all four tables are loaded.
C15_LoadOrder ==
    /\ Len(log) <= Len(FullLog)
    /\ \A k \in DOMAIN log : log[k] = FullLog[k]
    /\ \A k \in DOMAIN LoadOrder : db[LoadOrder[k]] # <<>> => LoadOrder[k] \in Loaded
    /\ log # <<>> => db.schema /\ db.foreign_keys
    /\ References("applications", "client_id", "clients", "client_id")
    /\ References("certification_results", "application_id", "applications", "application_id")
    /\ References("audit_results", "application_id", "applications", "application_id")
    /\ db.views # {} => Loaded = {LoadOrder[k] : k \in DOMAIN LoadOrder}

C15_Witness ==
    /\ pc = "done"
    /\ log = FullLog
    /\ db.views = ViewNames
    /\ \A k \in DOMAIN LoadOrder : db[LoadOrder[k]] = read_csv(LoadOrder[k])
    /\ db.audit_results # <<>>

\* The loader has come to table LoadOrder[k] and its INSERT violates a
\* constraint of the schema.
Violating(k) ==
    /\ db.schema
    /\ \A j \in 1..(k - 1) : LoadOrder[j] \in Loaded
    /\ LoadOrder[k] \notin Loaded
    /\ ~Accepts(LoadOrder[k], db, read_csv(LoadOrder[k]))

\* C16: when the INSERT of a table violates a constraint (primary key,
\* foreign key, NOT NULL or CHECK) the load stops there: the loader is at
\* that table or has failed, neither that table nor a later one holds rows,
\* no view exists, verification has not run and completion is not reported;
\* and the loader fails only on such a violation.
C16_AbortOnViolation ==
    /\ \A k \in DOMAIN LoadOrder :
          Violating(k) =>
             /\ pc \in {LoadPc[k], "load_failed"}
             /\ \A j \in k..Len(LoadOrder) : db[LoadOrder[j]] = <<>> /\ LoadOrder[j] \notin Loaded
             /\ db.views = {}
             /\ \A n \in DOMAIN log : log[n] \notin {"Created 5 views", "Verification", "Done"}
    /\ pc = "load_failed" => \E k \in DOMAIN LoadOrder : Violating(k)

C16_Witness ==
    /\ pc = "load_failed"
    /\ Loaded = {"clients", "applications"}
    /\ Violating(3)
    /\ \E i \in Rows(certs) : certs[i].passed_first_time \notin {0, 1}
    /\ audits # <<>>
    /\ Accepts("audit_results", db, audits)
    /\ db.audit_results = <<>>

\* C17: the schema has a domain constraint for every enumerated field
\* (manufacturer_size, sector, instrument_type, mid_module, risk_class,
\* audit_status, passed_first_time), so no row with a value outside the
\* field's fixed value set is ever loaded.
C17_DomainsEnforced ==
    /\ \A i \in Rows(db.clients) :
          /\ db.clients[i].manufacturer_size \in VALID_MFR_SIZES
          /\ db.clients[i].sector \in VALID_SECTORS
    /\ \A i \in Rows(db.applications) :
          /\ db.applications[i].instrument_type \in VALID_INSTRUMENTS
          /\ db.applications[i].mid_module \in VALID_MODULES
          /\ db.applications[i].risk_class \in VALID_RISK
    /\ \A i \in Rows(db.certification_results) :
          db.certification_results[i].passed_first_time \in {0, 1}
    /\ \A i \in Rows(db.audit_results) :
          db.audit_results[i].audit_status \in VALID_STATUS

\* The day an application's audits run up to: the persisted certification
\* date if there is one, else submission + base turnaround + 12 days per
\* revision.
CompletionDay(app, cert) ==
    IF cert.certification_date # NoDate THEN to_datetime(cert.certification_date)
    ELSE to_datetime(app.submission_date) + BASE_TURNAROUND_DAYS(app.mid_module)
         + DAYS_PER_REVISION * cert.total_revisions

\* C18: every audit_date of a generated application lies between its
\* submission_date and its completion date (both included); in particular
\* no audit, the final one included, is dated after the certification date.
C18_AuditDatesWithinSpan ==
    AuditsGenerated =>
        \A k \in Rows(apps) :
            LET cert == CertsOf(apps[k].application_id)[1]
                mine == AuditsOf(apps[k].application_id)
            IN \A i \in Rows(mine) :
                  /\ to_datetime(apps[k].submission_date) <= to_datetime(mine[i].audit_date)
                  /\ to_datetime(mine[i].audit_date) <= CompletionDay(apps[k], cert)

C18_Witness ==
    /\ AuditsGenerated
    /\ certs[1].certification_date = NoDate
    /\ certs[1].total_revisions = 2
    /\ Len(audits) = 3
    /\ to_datetime(audits[1].audit_date) > to_datetime(apps[1].submission_date)
    /\ to_datetime(audits[3].audit_date) = CompletionDay(apps[1], certs[1])
    /\ audits[3].audit_status = "PENDING"

\* C19: an application with total_revisions = 0 has exactly one audit event,
\* dated submission_date + span (the whole span is the offset), which is the
\* certification date when the application is certified; the number of
\* audits the span is divided by is never zero.
C19_SingleAuditAtSpan ==
    AuditsGenerated =>
        \A k \in Rows(apps) :
            LET cert == CertsOf(apps[k].application_id)[1]
                mine == AuditsOf(apps[k].application_id)
            IN /\ TotalAudits(cert.total_revisions) >= 1
               /\ cert.total_revisions = 0 =>
                     /\ Len(mine) = 1
                     /\ to_datetime(mine[1].audit_date) = CompletionDay(apps[k], cert)
                     /\ cert.certification_date # NoDate =>
                            mine[1].audit_date = cert.certification_date

C19_Witness ==
    /\ AuditsGenerated
    /\ certs[1].total_revisions = 0
    /\ certs[1].certification_date # NoDate
    /\ Len(audits) = 1
    /\ audits[1].audit_date = certs[1].certification_date
    /\ to_datetime(audits[1].audit_date) - to_datetime(apps[1].submission_date)
          = BASE_TURNAROUND_DAYS("B") + MaxJitter

\* C20: a generated certification result has no certification_date only if
\* its application was submitted strictly later than END_DATE minus 90 days;
\* an application submitted on or before that day has a certification_date.
C20_PendingOnlyIfRecent ==
    CertsGenerated =>
        \A k \in Rows(apps) :
            LET cert == CertsOf(apps[k].application_id)[1]
            IN /\ cert.certification_date = NoDate =>
                     to_datetime(apps[k].submission_date) > END_DATE - PendingWindow
               /\ to_datetime(apps[k].submission_date) <= END_DATE - PendingWindow =>
                     cert.certification_date # NoDate

C20_Witness ==
    /\ CertsGenerated
    /\ certs[1].certification_date = NoDate
    /\ to_datetime(apps[1].submission_date) = END_DATE - PendingWindow + 1
    /\ certs[1].passed_first_time = 1

\* The result the validator recorded under a check's name.
ResultOf(name) == results[CHOOSE i \in Rows(results) : results[i].name = name]

\* C21: for every generated result with a certification date, the days from
\* submission to certification are base + 12 x total_revisions + j with
\* -10 <= j <= 10 (base 45 for module B, 30 for module D) and are not
\* clamped, so they lie between 20 and 103, the certification date is after
\* the submission date, and the validator's date-order and turnaround-range
\* checks report no issue.
C21_TurnaroundRange ==
    /\ CertsGenerated =>
          \A k \in Rows(apps) :
              LET cert == CertsOf(apps[k].application_id)[1]
                  days == to_datetime(cert.certification_date) - to_datetime(apps[k].submission_date)
                  base == IF apps[k].mid_module = "B" THEN 45 ELSE 30
                  j == days - base - 12 * cert.total_revisions
              IN cert.certification_date # NoDate =>
                    /\ 0 - 10 <= j /\ j <= 10
                    /\ 20 <= days /\ days <= 103
                    /\ StrLeq(apps[k].submission_date, cert.certification_date)
                    /\ apps[k].submission_date # cert.certification_date
    /\ pc \in {"checked", "reported"} =>
          /\ ResultOf("3.1 Date order (submit -> cert)").passed
          /\ ResultOf("3.1 Date order (submit -> cert)").issues = 0
          /\ ResultOf("3.2 Turnaround range").passed
          /\ ResultOf("3.2 Turnaround range").issues = 0

C21_Witness ==
    /\ pc = "reported"
    /\ apps[1].mid_module = "D"
    /\ certs[1].certification_date # NoDate
    /\ to_datetime(certs[1].certification_date) - to_datetime(apps[1].submission_date) = 20
    /\ ResultOf("3.2 Turnaround range").severity = "OK"

\* The validator has run.
Validated == pc \in {"checked", "reported"}

\* C22: on any dataset the audit-count check counts every application with
\* a certification result whose number of audit rows differs from
\* 1 + total_revisions, an application without any audit row included.
C22_AuditCountAllApps ==
    Validated =>
        ResultOf("3.5 Audit count consistency").issues =
            Cardinality({i \in Rows(certs) :
                           Len(AuditsOf(certs[i].application_id)) # 1 + certs[i].total_revisions})

\* Certification result i has no certification date although its
\* application has audit rows and none of the latest-dated ones is PENDING.
MissingDateNotPending(i) ==
    LET mine == GroupRows(audits, certs[i].application_id)
        latest == {r \in mine : \A q \in mine : SortsAtOrAfter(audits, r, q)}
    IN /\ certs[i].certification_date = NoDate
       /\ mine # {}
       /\ \A r \in latest : audits[r].audit_status # "PENDING"

\* C23: on any dataset, when a certification result has no certification
\* date while the chronologically last audit of its application is not
\* PENDING, the validator records a CRITICAL result and gives the failing
\* verdict.
C23_UnexplainedMissingDateIsCritical ==
    Validated /\ (\E i \in Rows(certs) : MissingDateNotPending(i)) =>
        /\ \E n \in Rows(results) : results[n].severity = "CRITICAL"
        /\ pc = "reported" => verdict = "Critical issues found"
C23_Witness ==
    /\ pc = "reported"
    /\ \E i \in Rows(certs) :
          /\ MissingDateNotPending(i)
          /\ \E r \in Rows(audits) :
                /\ audits[r].application_id = certs[i].application_id
                /\ audits[r].audit_status = "FAIL"
    /\ ResultOf("1.3 Certification dates").passed
    /\ ResultOf("1.3 Certification dates").severity = "INFO"
    /\ ResultOf("5.3 Final audit<->cert alignment").severity = "CRITICAL"
    /\ \A n \in Rows(results) :
          results[n].severity = "CRITICAL" =>
             results[n].name = "5.3 Final audit<->cert alignment"
    /\ verdict = "Critical issues found"
\* C24: on any dataset the validator records a finding (a result that is
\* not passed, with severity WARNING or CRITICAL) whenever some PASS or
\* PENDING audit event has a failure_reason and whenever some FAIL event has
\* none.
C24_ReasonMismatchReported ==
    Validated /\ (\E r \in Rows(audits) :
                    \/ audits[r].audit_status \in {"PASS", "PENDING"} /\ audits[r].failure_reason # NULL
                    \/ audits[r].audit_status = "FAIL" /\ audits[r].failure_reason = NULL) =>
        \E n \in Rows(results) :
           ~results[n].passed /\ results[n].severity \in {"WARNING", "CRITICAL"}

\* C25: every dataset the synthesizer writes loads without a constraint
\* violation: no to_sql of the loader is refused, and the finished database
\* holds every row of the four CSV files.
C25_SynthesizedDataLoads ==
    /\ pc # "load_failed"
    /\ pc = "done" =>
          /\ db.clients = clients
          /\ db.applications = apps
          /\ db.certification_results = certs
          /\ db.audit_results = audits
C25_Witness ==
    /\ pc = "done"
    /\ Len(db.clients) = NumClients
    /\ Len(db.applications) = NumApplications
    /\ \E i, j \in Rows(db.audit_results) :
          /\ i # j
          /\ db.audit_results[i].audit_status = "FAIL"
          /\ db.audit_results[j].audit_status = "PENDING"
    /\ \E i \in Rows(db.certification_results) :
          db.certification_results[i].certification_date = NoDate

\* A rate that is at most / at least another, by cross-multiplication.
RateLeq(r, q) == r.num * q.den <= q.num * r.den

Hundred == [num |-> 100, den |-> 1]

\* The data-model invariants on the loaded tables: one certification result
\* per application, passed_first_time = 1 exactly without revisions, a
\* revision count the synthesizer can draw, 1 + total_revisions audit events
\* of which the last is PASS for a dated and PENDING for an undated result
\* and the others FAIL with a reason of the application's module.
DataModelInvariants ==
    \A a \in Rows(db.applications) :
       LET id == db.applications[a].application_id
           cert == SelectSeq(db.certification_results, LAMBDA r : r.application_id = id)
           events == SelectSeq(db.audit_results, LAMBDA r : r.application_id = id)
           reasons == Labels(FailureReasons(db.applications[a].mid_module))
       IN /\ Len(cert) = 1
          /\ cert[1].passed_first_time = (IF cert[1].total_revisions = 0 THEN 1 ELSE 0)
          /\ cert[1].total_revisions \in {0} \cup Labels(REVISION_DIST)
          /\ Len(events) = 1 + cert[1].total_revisions
          /\ \A k \in 1..(Len(events) - 1) :
                events[k].audit_status = "FAIL" /\ events[k].failure_reason \in reasons
          /\ events[Len(events)].audit_status =
                (IF cert[1].certification_date # NoDate THEN "PASS" ELSE "PENDING")
          /\ events[Len(events)].failure_reason = NULL

\* C26: for a loaded dataset that satisfies the data-model invariants, with
\* a certified application and a FAIL audit, the projected success rate of
\* estimate_savings is not below the current success rate and not above 100%.
C26_ProjectionWithinBounds ==
    pc = "estimated" /\ DataModelInvariants =>
        /\ RateLeq(savings.current_rate, savings.projected_rate)
        /\ RateLeq(savings.projected_rate, Hundred)

====
